---- MODULE Spec2Model ----
(***************************************************************************)
(* Model of the bar-spectrum visualizer of src/lib.rs: the process-wide    *)
(* STATE cell (variable STATE_cell, STATE being a reserved word), the      *)
(* three entry points start, render_frame and update_canvas_size, and the  *)
(* per-frame geometry of render_linear_visualizer.                         *)
(*                                                                         *)
(*   STATE_cell       Option<VisualizerState>                              *)
(*   started          the module's start function has run                  *)
(*   aborted          a panic has aborted the module instance              *)
(*   overflow_checks  build profile: integer overflow checks on or off     *)
(*   gl_calls         GL calls issued by the most recent entry-point call  *)
(*   gpu_buffer       data store of the bound ARRAY_BUFFER                 *)
(*   gpu_uniform      value of u_resolution; gpu_viewport: GL viewport     *)
(*   result           outcome of the most recent entry-point call          *)
(*   call, reads, requested, ncalls   history: the most recent call and    *)
(*                    its arguments, the indices it read from              *)
(*                    frequency_data, the size most recently handed to     *)
(*                    the context, the number of calls so far              *)
(*                                                                         *)
(* Representation of f32 quantities.  Every f32 of the program is held as  *)
(* an integer count of a fixed unit in which the program's arithmetic is   *)
(* exact (rounding of the last bit of an f32 is not modelled):             *)
(*   canvas width/height   1/SubPixel px                                   *)
(*   x coordinates         1/(SubPixel*XScale) px                          *)
(*   y coordinates         1/(SubPixel*YScale) px                          *)
(*   value, smoothed_value 1/255 resp. 1/FixedOne                          *)
(* Option<T> is a sequence of length 0 (None) or 1 (Some).                 *)
(***************************************************************************)
EXTENDS Integers, Sequences, FiniteSets, TLC

VARIABLES STATE_cell, started, aborted, overflow_checks, gl_calls, gpu_buffer,
          gpu_uniform, gpu_viewport, result, call, reads, requested, ncalls

vars == <<STATE_cell, started, aborted, overflow_checks, gl_calls, gpu_buffer,
          gpu_uniform, gpu_viewport, result, call, reads, requested, ncalls>>

----------------------------------------------------------------------------
(* Bounds of the model *)

MaxCalls == 3

SubPixel == 2

----------------------------------------------------------------------------
(* Constants and numeric representation *)

NUM_BARS == 128

FixedOne == 10000

XScale == 200 * NUM_BARS

YScale == 20 * FixedOne

None == <<>>

Some(x) == <<x>>

Min(a, b) == IF a <= b THEN a ELSE b

\* x * n / d, exact whenever d divides x * n, without leaving 32 bits
MulRat(x, n, d) == (x \div d) * n + ((x % d) * n) \div d

\* `x as i32` for an f32 held in 1/SubPixel px: truncation toward zero
AsI32(x) == IF x >= 0 THEN x \div SubPixel ELSE -((-x) \div SubPixel)

\* `canvas.width() as f32`: a whole number of pixels
U32AsF32(px) == px * SubPixel

\* value.powf(0.85) for value = b/255, b = 0..255, in units of 1/FixedOne
GammaTable ==
  <<
         0,    90,   162,   229,   293,   354,   413,   471,   527,   583,   637,   691,   744,   797,   848,   900,
       950,  1001,  1051,  1100,  1149,  1198,  1246,  1294,  1342,  1389,  1436,  1483,  1529,  1576,  1622,  1668,
      1713,  1759,  1804,  1849,  1894,  1938,  1983,  2027,  2071,  2115,  2159,  2202,  2246,  2289,  2332,  2375,
      2418,  2461,  2504,  2546,  2588,  2631,  2673,  2715,  2757,  2799,  2840,  2882,  2923,  2965,  3006,  3047,
      3088,  3129,  3170,  3211,  3251,  3292,  3333,  3373,  3413,  3454,  3494,  3534,  3574,  3614,  3654,  3693,
      3733,  3773,  3812,  3852,  3891,  3930,  3970,  4009,  4048,  4087,  4126,  4165,  4204,  4243,  4282,  4320,
      4359,  4397,  4436,  4474,  4513,  4551,  4589,  4628,  4666,  4704,  4742,  4780,  4818,  4856,  4894,  4931,
      4969,  5007,  5044,  5082,  5120,  5157,  5194,  5232,  5269,  5307,  5344,  5381,  5418,  5455,  5492,  5529,
      5566,  5603,  5640,  5677,  5714,  5751,  5787,  5824,  5861,  5897,  5934,  5970,  6007,  6043,  6080,  6116,
      6152,  6189,  6225,  6261,  6297,  6334,  6370,  6406,  6442,  6478,  6514,  6550,  6586,  6621,  6657,  6693,
      6729,  6765,  6800,  6836,  6872,  6907,  6943,  6978,  7014,  7049,  7085,  7120,  7156,  7191,  7226,  7261,
      7297,  7332,  7367,  7402,  7437,  7473,  7508,  7543,  7578,  7613,  7648,  7683,  7717,  7752,  7787,  7822,
      7857,  7892,  7926,  7961,  7996,  8030,  8065,  8100,  8134,  8169,  8203,  8238,  8272,  8307,  8341,  8376,
      8410,  8444,  8479,  8513,  8547,  8582,  8616,  8650,  8684,  8718,  8752,  8787,  8821,  8855,  8889,  8923,
      8957,  8991,  9025,  9059,  9093,  9126,  9160,  9194,  9228,  9262,  9296,  9329,  9363,  9397,  9430,  9464,
      9498,  9531,  9565,  9599,  9632,  9666,  9699,  9733,  9766,  9800,  9833,  9867,  9900,  9933,  9967, 10000  >>

powf_085(value) == GammaTable[value + 1]

----------------------------------------------------------------------------
(* GL calls, as records of the log of the current entry-point call *)

GL(op, args) == [op |-> op, args |-> args]

NoCall == [fn |-> "none", frequency_data |-> <<>>, time_data |-> <<>>,
           width |-> 0, height |-> 0]

Returned == [kind |-> "returned", msg |-> ""]

Ok == [kind |-> "Ok", msg |-> ""]

Err(msg) == [kind |-> "Err", msg |-> msg]

Panic(msg) == [kind |-> "panic", msg |-> msg]

----------------------------------------------------------------------------
(* render_linear_visualizer: layout of a frame *)

cy(state) == (state.canvas_height * YScale) \div 2

padding_x(state) == MulRat(state.canvas_width * XScale, 5, 100)

total_width(state) == state.canvas_width * XScale - 2 * padding_x(state)

bar_spacing(state) == total_width(state) \div NUM_BARS

\* variant: the bar fills its whole slot (no inter-bar gap)
bar_width_no_gap(state) == bar_spacing(state)

bar_width(state) == MulRat(bar_spacing(state), 7, 10)

\* variant: bars may grow to half the canvas height
max_height_half(state) == MulRat(state.canvas_height * YScale, 50, 100)

max_height(state) == MulRat(state.canvas_height * YScale, 35, 100)

\* variant: the index wraps around instead of clamping
freq_idx_wrap(i, len) == IF len = 0 THEN i ELSE i % len

\* i.min(frequency_data.len() - 1) on usize; with the overflow check off,
\* 0 - 1 wraps to usize::MAX, which is >= every i
freq_idx(i, len) == IF len = 0 THEN i ELSE Min(i, len - 1)

x_center(state, i) ==
  padding_x(state) + i * bar_spacing(state) + bar_spacing(state) \div 2

\* h = 4.0 + smoothed_value * max_height
bar_h(state, smoothed_value) ==
  4 * SubPixel * YScale + MulRat(max_height(state), smoothed_value, FixedOne)

\* variant: the second triangle is tagged with the next bar's index
bar_vertices_next_idx(x1, x2, y_top, y_bottom, smoothed_value, idx) ==
  <<x1, y_top, smoothed_value, idx>> \o
  <<x2, y_top, smoothed_value, idx>> \o
  <<x1, y_bottom, smoothed_value, idx>> \o
  <<x2, y_top, smoothed_value, idx + 1>> \o
  <<x2, y_bottom, smoothed_value, idx + 1>> \o
  <<x1, y_bottom, smoothed_value, idx + 1>>

\* the six vertices (x, y, value, index) pushed for one bar
bar_vertices(x1, x2, y_top, y_bottom, smoothed_value, idx) ==
  <<x1, y_top, smoothed_value, idx>> \o
  <<x2, y_top, smoothed_value, idx>> \o
  <<x1, y_bottom, smoothed_value, idx>> \o
  <<x2, y_top, smoothed_value, idx>> \o
  <<x2, y_bottom, smoothed_value, idx>> \o
  <<x1, y_bottom, smoothed_value, idx>>

\* one iteration of `for i in 0..NUM_BARS`, given the index it reads
bar_step(state, frequency_data, i, fi) ==
  LET value == frequency_data[fi + 1]
      smoothed_value == powf_085(value)
      xc == x_center(state, i)
      h == bar_h(state, smoothed_value)
      x1 == xc - bar_width(state) \div 2
      x2 == xc + bar_width(state) \div 2
      y_top == cy(state) - h
      y_bottom == cy(state) + h
  IN bar_vertices(x1, x2, y_top, y_bottom, smoothed_value, i)

\* one iteration of `for i in 0..NUM_BARS`: the subtraction and the indexing
\* may panic, otherwise six vertices are pushed
bar_iter(state, frequency_data, checks, i) ==
  IF checks /\ Len(frequency_data) = 0
  THEN [panic |-> "attempt to subtract with overflow",
        vertices |-> <<>>, reads |-> <<>>]
  ELSE LET fi == freq_idx(i, Len(frequency_data)) IN
    IF fi >= Len(frequency_data)
    THEN [panic |-> "index out of bounds", vertices |-> <<>>, reads |-> <<fi>>]
    ELSE [panic |-> "", vertices |-> bar_step(state, frequency_data, i, fi),
          reads |-> <<fi>>]

\* two consecutive runs of iterations: the second runs only if the first
\* did not panic, and pushes onto the same Vec
loop_seq(head, tail) ==
  IF head.panic # "" THEN head
  ELSE [panic |-> tail.panic,
        vertices |-> head.vertices \o tail.vertices,
        reads |-> head.reads \o tail.reads]

\* iterations lo .. hi-1 of the loop, in order, stopping at the first panic
\* (the range is split in two to keep the evaluation shallow)
RECURSIVE bars_loop(_, _, _, _, _)
bars_loop(state, frequency_data, checks, lo, hi) ==
  IF hi = lo THEN [panic |-> "", vertices |-> <<>>, reads |-> <<>>]
  ELSE IF hi = lo + 1 THEN bar_iter(state, frequency_data, checks, lo)
  ELSE loop_seq(bars_loop(state, frequency_data, checks, lo, (lo + hi) \div 2),
                bars_loop(state, frequency_data, checks, (lo + hi) \div 2, hi))

\* the GL calls before the loop, and after it when it ran to its end
render_calls(state, loop) ==
  LET head == << GL("clear_color", <<0, 0, 0, 0>>),
                 GL("clear", <<"COLOR_BUFFER_BIT">>),
                 GL("uniform2f", <<state.canvas_width, state.canvas_height>>) >>
  IN IF loop.panic # ""
     THEN [state |-> state, calls |-> head, panic |-> loop.panic,
           uploaded |-> FALSE, vertices |-> loop.vertices, reads |-> loop.reads]
     ELSE [state |-> state,
           calls |-> head \o
             << GL("buffer_data", <<Len(loop.vertices)>>),
                GL("draw_arrays", <<0, NUM_BARS * 6>>) >>,
           panic |-> "", uploaded |-> TRUE,
           vertices |-> loop.vertices, reads |-> loop.reads]

render_linear_visualizer(state, frequency_data, checks) ==
  render_calls(state, bars_loop(state, frequency_data, checks, 0, NUM_BARS))

----------------------------------------------------------------------------
(* start: one-time setup *)

StartSteps ==
  { "window", "document", "canvas", "canvas_cast", "get_context", "webgl2",
    "gl_cast", "create_vertex_shader", "vertex_compile_status",
    "create_fragment_shader", "fragment_compile_status", "create_program",
    "link_status", "uniform", "buffer" }

compile_shader(env, stage) ==
  IF ~env["create_" \o stage \o "_shader"]
  THEN [ok |-> FALSE, err |-> "Cannot create shader",
        calls |-> << GL("create_shader", <<stage>>) >>]
  ELSE LET calls == << GL("create_shader", <<stage>>),
                       GL("shader_source", <<stage>>),
                       GL("compile_shader", <<stage>>) >>
       IN IF env[stage \o "_compile_status"]
          THEN [ok |-> TRUE, err |-> "", calls |-> calls]
          ELSE [ok |-> FALSE, err |-> "shader info log", calls |-> calls]

link_program(env) ==
  IF ~env["create_program"]
  THEN [ok |-> FALSE, err |-> "Cannot create program",
        calls |-> << GL("create_program", <<>>) >>]
  ELSE LET calls == << GL("create_program", <<>>),
                       GL("attach_shader", <<"vertex">>),
                       GL("attach_shader", <<"fragment">>),
                       GL("link_program", <<>>) >>
       IN IF env["link_status"]
          THEN [ok |-> TRUE, err |-> "", calls |-> calls]
          ELSE [ok |-> FALSE, err |-> "program info log", calls |-> calls]

StartFail(msg, calls) == [ok |-> FALSE, err |-> msg, calls |-> calls, state |-> None]

\* the body of start up to, not including, the store into STATE
start_setup(env, canvas) ==
  IF ~env["window"] THEN StartFail("No window", <<>>)
  ELSE IF ~env["document"] THEN StartFail("No document", <<>>)
  ELSE IF ~env["canvas"] THEN StartFail("No canvas", <<>>)
  ELSE IF ~env["canvas_cast"] THEN StartFail("not an HtmlCanvasElement", <<>>)
  ELSE IF ~env["get_context"] THEN StartFail("get_context threw", <<>>)
  ELSE IF ~env["webgl2"] THEN StartFail("No WebGL2", <<>>)
  ELSE IF ~env["gl_cast"] THEN StartFail("not a WebGl2RenderingContext", <<>>)
  ELSE LET vs == compile_shader(env, "vertex") IN
  IF ~vs.ok THEN StartFail(vs.err, vs.calls)
  ELSE LET fs == compile_shader(env, "fragment") IN
  IF ~fs.ok THEN StartFail(fs.err, vs.calls \o fs.calls)
  ELSE LET lp == link_program(env) IN
  IF ~lp.ok THEN StartFail(lp.err, vs.calls \o fs.calls \o lp.calls)
  ELSE LET c1 == vs.calls \o fs.calls \o lp.calls \o
                 << GL("use_program", <<>>) >> IN
  IF ~env["uniform"] THEN StartFail("No resolution uniform", c1)
  ELSE IF ~env["buffer"]
  THEN StartFail("Failed to create buffer", c1 \o << GL("create_buffer", <<>>) >>)
  ELSE [ok |-> TRUE, err |-> "",
        calls |-> c1 \o
          << GL("create_buffer", <<>>),
             GL("bind_buffer", <<>>),
             GL("vertex_attrib_pointer", <<2, 16, 0>>),
             GL("vertex_attrib_pointer", <<1, 16, 8>>),
             GL("vertex_attrib_pointer", <<1, 16, 12>>),
             GL("enable_vertex_attrib_array", <<>>),
             GL("enable_vertex_attrib_array", <<>>),
             GL("enable_vertex_attrib_array", <<>>),
             GL("enable", <<"BLEND">>),
             GL("blend_func", <<"SRC_ALPHA", "ONE_MINUS_SRC_ALPHA">>) >>,
        state |-> Some([gl |-> "gl", program |-> "program",
                        vertex_buffer |-> "vertex_buffer",
                        resolution_loc |-> "u_resolution",
                        canvas_width |-> U32AsF32(canvas[1]),
                        canvas_height |-> U32AsF32(canvas[2])])]

----------------------------------------------------------------------------
(* Inputs *)

Ramp(len, first, step) == [k \in 1..len |-> (first + (k - 1) * step) % 256]

FreqEmpty == <<>>

\* 0, 2, 4, ... up to 255 over the 128 bins, and its mirror image
FreqUp == [k \in 1..NUM_BARS |-> ((k - 1) * 255) \div (NUM_BARS - 1)]

FreqDown == [k \in 1..NUM_BARS |-> 255 - FreqUp[k]]

FreqShort == Ramp(100, 3, 5)

FreqSingle == <<200>>

FreqNear == Ramp(NUM_BARS - 1, 9, 7)

FreqLong == Ramp(NUM_BARS + 2, 1, 1)

TimeA == <<>>

TimeB == <<128, 127>>

\* (frequency_data, time_data) pairs handed to render_frame
RenderInputs ==
  { <<FreqEmpty, TimeA>>, <<FreqUp, TimeA>>, <<FreqUp, TimeB>>,
    <<FreqDown, TimeA>>, <<FreqShort, TimeB>>, <<FreqSingle, TimeA>>,
    <<FreqNear, TimeA>>, <<FreqLong, TimeB>> }

\* (width, height) handed to update_canvas_size, in 1/SubPixel px
ResizeInputs == { <<800 * SubPixel, 600 * SubPixel>>,
                  <<800 * SubPixel + 1, 600 * SubPixel + 1>>,
                  <<-3, -2>> }

\* (width, height) of the canvas element found by start, in px
CanvasSizes == { <<300, 150>>, <<0, 0>> }

\* outcomes of the environment's steps during start: at most one step fails
StartEnvs == { [s \in StartSteps |-> s # f] : f \in StartSteps \cup {"none"} }

----------------------------------------------------------------------------
(* State machine *)

Init ==
  /\ STATE_cell = None
  /\ started = FALSE
  /\ aborted = FALSE
  /\ overflow_checks \in BOOLEAN
  /\ gl_calls = <<>>
  /\ gpu_buffer = <<>>
  /\ gpu_uniform = None
  /\ gpu_viewport = None
  /\ result = Returned
  /\ call = NoCall
  /\ reads = <<>>
  /\ requested = None
  /\ ncalls = 0

\* #[wasm_bindgen(start)]: runs once, when the module is instantiated
start(env, canvas) ==
  /\ ~started
  /\ started' = TRUE
  /\ LET r == start_setup(env, canvas) IN
       /\ gl_calls' = r.calls
       /\ IF r.ok
          THEN /\ STATE_cell' = r.state
               /\ result' = Ok
               /\ requested' = Some(<<r.state[1].canvas_width,
                                      r.state[1].canvas_height>>)
          ELSE /\ STATE_cell' = STATE_cell
               /\ result' = Err(r.err)
               /\ requested' = requested
  /\ call' = [NoCall EXCEPT !.fn = "start"]
  /\ UNCHANGED <<aborted, overflow_checks, gpu_buffer, gpu_uniform,
                 gpu_viewport, reads, ncalls>>

\* variant: the upload appends to the buffer instead of replacing it
render_effects_append(r) ==
  /\ STATE_cell' = Some(r.state)
  /\ gl_calls' = r.calls
  /\ reads' = r.reads
  /\ gpu_uniform' = Some(r.calls[3].args)
  /\ gpu_buffer' = IF r.uploaded THEN gpu_buffer \o r.vertices ELSE gpu_buffer
  /\ aborted' = (r.panic # "")
  /\ result' = IF r.panic # "" THEN Panic(r.panic) ELSE Returned

\* what a render on an initialised context leaves behind; a panic aborts
\* the module instance (panic = abort), after which no call is served
render_effects(r) ==
  /\ STATE_cell' = Some(r.state)
  /\ gl_calls' = r.calls
  /\ reads' = r.reads
  /\ gpu_uniform' = Some(r.calls[3].args)
  /\ gpu_buffer' = IF r.uploaded THEN r.vertices ELSE gpu_buffer
  /\ aborted' = (r.panic # "")
  /\ result' = IF r.panic # "" THEN Panic(r.panic) ELSE Returned

\* variant: the frame is cleared before the context is looked up
render_frame_clears_first(frequency_data, time_data) ==
  /\ started /\ ~aborted /\ ncalls < MaxCalls
  /\ ncalls' = ncalls + 1
  /\ call' = [NoCall EXCEPT !.fn = "render_frame",
                            !.frequency_data = frequency_data,
                            !.time_data = time_data]
  /\ IF STATE_cell = None
     THEN /\ gl_calls' = << GL("clear_color", <<0, 0, 0, 0>>),
                            GL("clear", <<"COLOR_BUFFER_BIT">>) >>
          /\ result' = Returned
          /\ reads' = <<>>
          /\ UNCHANGED <<STATE_cell, aborted, gpu_buffer, gpu_uniform>>
     ELSE render_effects(render_linear_visualizer(STATE_cell[1], frequency_data,
                                                  overflow_checks))
  /\ UNCHANGED <<started, overflow_checks, gpu_viewport, requested>>

render_frame(frequency_data, time_data) ==
  /\ started /\ ~aborted /\ ncalls < MaxCalls
  /\ ncalls' = ncalls + 1
  /\ call' = [NoCall EXCEPT !.fn = "render_frame",
                            !.frequency_data = frequency_data,
                            !.time_data = time_data]
  /\ IF STATE_cell = None
     THEN /\ gl_calls' = <<>>
          /\ result' = Returned
          /\ reads' = <<>>
          /\ UNCHANGED <<STATE_cell, aborted, gpu_buffer, gpu_uniform>>
     ELSE render_effects(render_linear_visualizer(STATE_cell[1], frequency_data,
                                                  overflow_checks))
  /\ UNCHANGED <<started, overflow_checks, gpu_viewport, requested>>

\* variant: only the width is stored
update_canvas_size_width_only(width, height) ==
  /\ started /\ ~aborted /\ ncalls < MaxCalls
  /\ ncalls' = ncalls + 1
  /\ call' = [NoCall EXCEPT !.fn = "update_canvas_size",
                            !.width = width, !.height = height]
  /\ result' = Returned
  /\ reads' = <<>>
  /\ IF STATE_cell = None
     THEN /\ gl_calls' = <<>>
          /\ UNCHANGED <<STATE_cell, gpu_viewport, requested>>
     ELSE /\ STATE_cell' = Some([STATE_cell[1] EXCEPT !.canvas_width = width])
          /\ gl_calls' = << GL("viewport", <<0, 0, AsI32(width), AsI32(height)>>) >>
          /\ gpu_viewport' = Some(<<0, 0, AsI32(width), AsI32(height)>>)
          /\ requested' = Some(<<width, height>>)
  /\ UNCHANGED <<started, aborted, overflow_checks, gpu_buffer, gpu_uniform>>

update_canvas_size(width, height) ==
  /\ started /\ ~aborted /\ ncalls < MaxCalls
  /\ ncalls' = ncalls + 1
  /\ call' = [NoCall EXCEPT !.fn = "update_canvas_size",
                            !.width = width, !.height = height]
  /\ result' = Returned
  /\ reads' = <<>>
  /\ IF STATE_cell = None
     THEN /\ gl_calls' = <<>>
          /\ UNCHANGED <<STATE_cell, gpu_viewport, requested>>
     ELSE /\ STATE_cell' = Some([STATE_cell[1] EXCEPT !.canvas_width = width,
                                                      !.canvas_height = height])
          /\ gl_calls' = << GL("viewport", <<0, 0, AsI32(width), AsI32(height)>>) >>
          /\ gpu_viewport' = Some(<<0, 0, AsI32(width), AsI32(height)>>)
          /\ requested' = Some(<<width, height>>)
  /\ UNCHANGED <<started, aborted, overflow_checks, gpu_buffer, gpu_uniform>>

Next ==
  \/ \E env \in StartEnvs, canvas \in CanvasSizes : start(env, canvas)
  \/ \E inp \in RenderInputs : render_frame(inp[1], inp[2])
  \/ \E size \in ResizeInputs : update_canvas_size(size[1], size[2])

Spec == Init /\ [][Next]_vars

----------------------------------------------------------------------------
(* Reading a frame back from the vertex buffer: vertex n = 0..767 occupies  *)
(* floats 4n+1 .. 4n+4, bar i the vertices 6i .. 6i+5                       *)

VField(buf, n, f) == buf[4 * n + f]

BarX1(buf, i) == VField(buf, 6 * i, 1)

BarX2(buf, i) == VField(buf, 6 * i + 1, 1)

BarTop(buf, i) == VField(buf, 6 * i, 2)

BarBottom(buf, i) == VField(buf, 6 * i + 2, 2)

BarValue(buf, i) == VField(buf, 6 * i, 3)

Bars == 0..(NUM_BARS - 1)

Ops(calls) == [k \in 1..Len(calls) |-> calls[k].op]

RenderOps == <<"clear_color", "clear", "uniform2f", "buffer_data", "draw_arrays">>

Initialised == STATE_cell # None

\* the last call was a render_frame on an initialised context
LastRender == Initialised /\ call.fn = "render_frame"

\* ... and it returned
Completed == LastRender /\ result.kind = "returned"

\* the quantities of the specification, in the units of the model
Px(n) == n * SubPixel * YScale

RefPad(W) == W * (XScale \div 20)

RefSlot(W) == W * ((9 * XScale) \div (10 * NUM_BARS))

RefMaxH(H) == H * ((7 * YScale) \div 20)

RefH(H, v) == Px(4) + (RefMaxH(H) \div FixedOne) * v

\* the two triangles of bar i span the rectangle [xl, xr] x [yt, yb]
IsRect(buf, i, xl, xr, yt, yb) ==
  /\ VField(buf, 6 * i, 1) = xl     /\ VField(buf, 6 * i, 2) = yt
  /\ VField(buf, 6 * i + 1, 1) = xr /\ VField(buf, 6 * i + 1, 2) = yt
  /\ VField(buf, 6 * i + 2, 1) = xl /\ VField(buf, 6 * i + 2, 2) = yb
  /\ VField(buf, 6 * i + 3, 1) = xr /\ VField(buf, 6 * i + 3, 2) = yt
  /\ VField(buf, 6 * i + 4, 1) = xr /\ VField(buf, 6 * i + 4, 2) = yb
  /\ VField(buf, 6 * i + 5, 1) = xl /\ VField(buf, 6 * i + 5, 2) = yb

\* every bar of buf is laid out against a W x H viewport
GeometryFrom(buf, W, H) ==
  /\ Len(buf) = NUM_BARS * 6 * 4
  /\ \A i \in Bars :
       IsRect(buf, i,
              RefPad(W) + i * RefSlot(W) + (3 * RefSlot(W)) \div 20,
              RefPad(W) + i * RefSlot(W) + (17 * RefSlot(W)) \div 20,
              (H * YScale) \div 2 - RefH(H, BarValue(buf, i)),
              (H * YScale) \div 2 + RefH(H, BarValue(buf, i)))

----------------------------------------------------------------------------
(* C1: each render pushes the dimensions of the most recent resize (or the  *)
(* initial canvas size) into the resolution uniform, and the geometry it    *)
(* uploads is computed from those dimensions, never from older ones.        *)
C1_RenderUsesLatestSize ==
  LastRender =>
    /\ Len(gl_calls) >= 3
    /\ gl_calls[3].op = "uniform2f"
    /\ gl_calls[3].args = requested[1]
    /\ gpu_uniform = requested
    /\ Completed => GeometryFrom(gpu_buffer, requested[1][1], requested[1][2])

C1_Witness ==
  /\ Completed
  /\ ncalls >= 2
  /\ requested = Some(<<800 * SubPixel + 1, 600 * SubPixel + 1>>)
  /\ gpu_viewport = Some(<<0, 0, 800, 600>>)
  /\ Len(gpu_buffer) = NUM_BARS * 6 * 4

----------------------------------------------------------------------------
(* C2: a render of a 128-long frequency array uploads exactly 128*6         *)
(* vertices (3072 floats), and the six vertices of bar i all carry index i  *)
(* and one common value.                                                    *)
C2_VertexCountAndIndex ==
  (LastRender /\ Len(call.frequency_data) = NUM_BARS) =>
    /\ result.kind = "returned"
    /\ Len(gpu_buffer) = 3072
    /\ Len(gpu_buffer) = 768 * 4
    /\ gl_calls[4].op = "buffer_data" /\ gl_calls[4].args = <<3072>>
    /\ \A i \in 0..127 : \A j \in 0..5 :
         /\ VField(gpu_buffer, 6 * i + j, 4) = i
         /\ VField(gpu_buffer, 6 * i + j, 3) = VField(gpu_buffer, 6 * i, 3)

C2_Witness ==
  /\ Completed
  /\ call.frequency_data = FreqDown
  /\ Len(gpu_buffer) = 3072
  /\ VField(gpu_buffer, 767, 4) = 127

(* C3: with 1 <= L < 128 entries the render does not fail; bar i < L reads  *)
(* frequency_data[i] and every bar i >= L reads frequency_data[L-1].        *)
C3_ClampPolicy ==
  (LastRender /\ Len(call.frequency_data) >= 1
              /\ Len(call.frequency_data) < NUM_BARS) =>
    LET L == Len(call.frequency_data) IN
    /\ result.kind = "returned" /\ ~aborted
    /\ Len(reads) = NUM_BARS
    /\ Len(gpu_buffer) = NUM_BARS * 6 * 4
    /\ \A i \in Bars :
         /\ reads[i + 1] = (IF i < L THEN i ELSE L - 1)
         /\ BarValue(gpu_buffer, i) =
              powf_085(call.frequency_data[(IF i < L THEN i ELSE L - 1) + 1])

C3_Witness ==
  /\ Completed
  /\ call.frequency_data = FreqShort
  /\ Len(FreqShort) = 100
  /\ reads[100] = 99 /\ reads[101] = 99 /\ reads[128] = 99
  /\ BarValue(gpu_buffer, 127) = powf_085(FreqShort[100])

(* C4: whatever the length of the frequency array, every index read is      *)
(* within the array, the render does not fail and issues the upload and     *)
(* the draw call.                                                           *)
C4_NoOutOfRangeRead ==
  LastRender =>
    /\ \A k \in 1..Len(reads) : reads[k] < Len(call.frequency_data)
    /\ result.kind = "returned" /\ ~aborted
    /\ Ops(gl_calls) = RenderOps

(* C5: while no context is stored, render_frame and update_canvas_size      *)
(* issue no GL call, leave the state uninitialised and return normally.     *)
C5_UninitialisedNoOp ==
  [][ (STATE_cell = None /\ call'.fn \in {"render_frame", "update_canvas_size"})
        => /\ STATE_cell' = None
           /\ gl_calls' = <<>>
           /\ result' = Returned
           /\ ~aborted'
           /\ UNCHANGED <<gpu_buffer, gpu_uniform, gpu_viewport>> ]_vars

C5_Witness ==
  /\ STATE_cell = None
  /\ started
  /\ call.fn = "update_canvas_size"
  /\ ncalls >= 2
  /\ gl_calls = <<>>

(* C6: for W > 0 every slot is 0.90*W/128 wide, bar i is centred in slot i  *)
(* and 0.7 of a slot wide, bar 0 starts at or right of 0.05*W, bar 127 ends *)
(* at or left of 0.95*W, and bar i ends strictly left of where bar i+1      *)
(* starts.                                                                  *)
C6_HorizontalLayout ==
  (Completed /\ STATE_cell[1].canvas_width > 0) =>
    LET W == STATE_cell[1].canvas_width
        buf == gpu_buffer
        slot == RefSlot(W)
    IN
    /\ \A i \in Bars :
         \* centred in slot i = [0.05W + i*slot, 0.05W + (i+1)*slot]
         /\ BarX1(buf, i) + BarX2(buf, i) = 2 * (RefPad(W) + i * slot) + slot
         /\ 10 * (BarX2(buf, i) - BarX1(buf, i)) = 7 * slot
         /\ RefPad(W) + i * slot <= BarX1(buf, i)
         /\ BarX2(buf, i) <= RefPad(W) + (i + 1) * slot
    /\ \A i \in 0..(NUM_BARS - 2) :
         \* equal slots: consecutive centres are one slot apart
         /\ (BarX1(buf, i + 1) + BarX2(buf, i + 1))
              - (BarX1(buf, i) + BarX2(buf, i)) = 2 * slot
         /\ BarX2(buf, i) < BarX1(buf, i + 1)
    /\ 10 * NUM_BARS * slot = 9 * W * XScale
    /\ BarX1(buf, 0) >= RefPad(W)
    /\ 20 * RefPad(W) = W * XScale
    /\ BarX2(buf, NUM_BARS - 1) <= 19 * RefPad(W)

C6_Witness ==
  /\ Completed
  /\ STATE_cell[1].canvas_width = 800 * SubPixel + 1
  /\ BarX1(gpu_buffer, 0) > RefPad(800 * SubPixel + 1)
  /\ BarX2(gpu_buffer, 127) < 19 * RefPad(800 * SubPixel + 1)

(* C7: for H >= 0 a magnitude of 0 gives half-height exactly 4 and value 0, *)
(* a magnitude of 255 gives half-height exactly 4 + 0.35*H and value 1, the *)
(* half-height is non-decreasing in the magnitude, and every bar is centred *)
(* at H/2 with y_top = H/2 - h and y_bottom = H/2 + h, 4 <= h <= 4+0.35*H.  *)
C7_HalfHeight ==
  (Completed /\ STATE_cell[1].canvas_height >= 0) =>
    LET H == STATE_cell[1].canvas_height
        buf == gpu_buffer
        freq == call.frequency_data
        byte(i) == freq[reads[i + 1] + 1]
        hh2(i) == BarBottom(buf, i) - BarTop(buf, i)
    IN
    /\ \A i \in Bars :
         /\ BarTop(buf, i) + BarBottom(buf, i) = H * YScale
         /\ IsRect(buf, i, BarX1(buf, i), BarX2(buf, i),
                   BarTop(buf, i), BarBottom(buf, i))
         /\ hh2(i) >= 2 * Px(4)
         /\ hh2(i) <= 2 * (Px(4) + RefMaxH(H))
         /\ byte(i) = 0 => (hh2(i) = 2 * Px(4) /\ BarValue(buf, i) = 0)
         /\ byte(i) = 255 => /\ hh2(i) = 2 * (Px(4) + RefMaxH(H))
                             /\ BarValue(buf, i) = FixedOne
    /\ \A i, j \in Bars : byte(i) <= byte(j) => hh2(i) <= hh2(j)
    /\ \A m \in 0..254 :
         bar_h(STATE_cell[1], powf_085(m)) <= bar_h(STATE_cell[1], powf_085(m + 1))

C7_Witness ==
  /\ Completed
  /\ STATE_cell[1].canvas_height = 600 * SubPixel
  /\ call.frequency_data = FreqUp
  /\ BarBottom(gpu_buffer, 0) - BarTop(gpu_buffer, 0) = 2 * Px(4)
  /\ BarBottom(gpu_buffer, 127) - BarTop(gpu_buffer, 127) = 2 * (Px(4) + Px(210))

(* C8: each render on an initialised context issues, in order and once      *)
(* each, the clear to (0,0,0,0), the write of the stored size to the        *)
(* resolution uniform, one upload of the frame's 128*6*4 floats replacing   *)
(* the whole buffer, and one draw call over vertices 0..767.                *)
C8_CallSequence ==
  LastRender =>
    /\ Ops(gl_calls) = RenderOps
    /\ gl_calls[1].args = <<0, 0, 0, 0>>
    /\ gl_calls[3].args = <<STATE_cell[1].canvas_width, STATE_cell[1].canvas_height>>
    /\ gl_calls[4].args = <<NUM_BARS * 6 * 4>>
    /\ gl_calls[5].args = <<0, 768>>
    /\ Len(gpu_buffer) = NUM_BARS * 6 * 4

\* the frame the specification describes for a W x H viewport and a
\* frequency array, vertex by vertex
RefVertices(W, H, freq) ==
  [k \in 1..(NUM_BARS * 24) |->
     LET i == (k - 1) \div 24
         n == ((k - 1) % 24) \div 4
         f == ((k - 1) % 4) + 1
         v == powf_085(freq[Min(i, Len(freq) - 1) + 1])
     IN CASE f = 1 -> RefPad(W) + i * RefSlot(W) +
                      ((IF n \in {0, 2, 5} THEN 3 ELSE 17) * RefSlot(W)) \div 20
          [] f = 2 -> IF n \in {0, 1, 3}
                      THEN (H * YScale) \div 2 - RefH(H, v)
                      ELSE (H * YScale) \div 2 + RefH(H, v)
          [] f = 3 -> v
          [] f = 4 -> i]

(* C9: the uploaded vertex data is determined by the stored width/height    *)
(* and the frequency array of the call alone (not by time_data or earlier   *)
(* frames), and render_frame changes neither the stored dimensions nor the  *)
(* handles of the context.                                                  *)
C9_FrameDependsOnlyOnSizeAndFreq ==
  /\ [](Completed =>
          gpu_buffer = RefVertices(STATE_cell[1].canvas_width,
                                   STATE_cell[1].canvas_height,
                                   call.frequency_data))
  /\ [][call'.fn = "render_frame" => STATE_cell' = STATE_cell]_vars

C9_Witness ==
  /\ Completed
  /\ ncalls >= 2
  /\ call.frequency_data = FreqUp
  /\ call.time_data = TimeB
  /\ gpu_buffer = RefVertices(300 * SubPixel, 150 * SubPixel, FreqUp)

(* C10: a failing start returns an error and stores no context, after which *)
(* render_frame draws nothing; the context is stored only by a start whose  *)
(* every step succeeded; errors come from start only, never from            *)
(* render_frame or update_canvas_size.                                      *)
C10_InitAllOrNothing ==
  /\ (call.fn = "start" /\ result.kind = "Err") =>
       (STATE_cell = None /\ requested = None)
  /\ (call.fn = "start" /\ result.kind = "Ok") => Initialised
  /\ (started /\ STATE_cell = None /\ call.fn = "render_frame") => gl_calls = <<>>
  /\ Initialised => started
  /\ call.fn \in {"render_frame", "update_canvas_size"} => result.kind = "returned"

====
